---- MODULE Spec2Model ----
(***************************************************************************)
(* The ALNS search engine of src/alns/ALNS.py: the two operator            *)
(* registries, the callback table, and iterate() with _eval_cand and       *)
(* _determine_outcome.  A solution (State) is an object on a heap: its     *)
(* identity is its index in obj, its objective the value stored there.     *)
(* iterate() is single-threaded; it is cut into one step per collaborator  *)
(* call so that the order of the calls and an error raised by any of them  *)
(* are visible.                                                            *)
(*                                                                         *)
(* SpecRegistry: the registration calls on a constructed engine.           *)
(* Spec:         one call of iterate() on a configured engine.             *)
(* SpecClassify: _determine_outcome on every combination of its inputs.    *)
(*                                                                         *)
(* Operators keep to the warning of add_destroy_operator (lines 186-191):  *)
(* they change copies, never the solution the engine still holds.          *)
(* Callbacks change the candidate in place (lines 111-119).                *)
(***************************************************************************)
EXTENDS Integers, Sequences, FiniteSets, TLC

\* ---------------------------------------------------------------- bounds
\* Largest iteration budget a stopping criterion carries (_max_iterations).
MaxBudget == 2
\* Objectives are drawn from 0..MaxObjective.
MaxObjective == 2
\* Registration calls (add_*_operator, on_*) made before iterate().
MaxSetupCalls == 3

\* ------------------------------------------------------------ value sets
Objectives == 0..MaxObjective

\* Operator functions, named by their __name__.
Operators == {"f", "g"}

\* The name argument of add_*_operator when it is omitted (None).
NoName == "<None>"

\* Name arguments tried: omitted, the empty string, and a name that is also
\* the __name__ of an operator.
NameArgs == {NoName, "", "f"}

Outcomes == {"BEST", "BETTER", "ACCEPT", "REJECT"}

\* Callback functions; NoCallback is an absent key of _on_outcome.
Callbacks == {"cb1", "cb2"}

NoCallback == "<none>"

\* Stopping criteria handed to iterate(): the fixed iteration budget, and
\* criteria of another kind, one that carries a _max_iterations attribute
\* of its own and one that does not.
StoppingCriteria ==
    [kind : {"MaxIterations"}, has_max_iterations : {TRUE}, max_iterations : 0..MaxBudget]
    \cup [kind : {"Other"}, has_max_iterations : {TRUE}, max_iterations : {MaxBudget}]
    \cup [kind : {"Other"}, has_max_iterations : {FALSE}, max_iterations : {0}]

\* No solution: the value of best, curr, destroyed, cand before they are set.
NoState == 0

VARIABLES
    d_ops,          \* self._d_ops: insertion-ordered dict, a sequence of <<name, op>>
    r_ops,          \* self._r_ops
    on_outcome,     \* self._on_outcome: Outcome -> callback
    setup_calls,    \* registration calls made so far
    pc,             \* position of iterate(): idle, the step about to run, returned, raised
    error,          \* the exception iterate() raised, "" when none
    stop,           \* the stop argument of iterate()
    stop_calls,     \* evaluations of stop so far
    obj,            \* heap: obj[s] is the objective of solution s
    init_obj,       \* init_obj of line 282
    best, curr,     \* locals of iterate()
    destroyed, cand,
    d_idx, r_idx,   \* indices returned by op_select (0-based, as in the code)
    accepted,       \* verdict of the acceptance criterion in this iteration
    outcome,        \* outcome of this iteration, "" before the first
    iteration,      \* the iteration counter of line 290
    log_rows,       \* rows of d_operators_log / r_operators_log
    stats,          \* the Statistics object
    clock,          \* time.perf_counter()
    calls,          \* history: the collaborator calls made by iterate(), in order
    prev,           \* history: best, curr and their objectives at the last loop head
    min_seen,       \* history: least objective iterate() has read so far
    mutated         \* history: a callback changed the objective of a solution

vars == <<d_ops, r_ops, on_outcome, setup_calls, pc, error, stop, stop_calls, obj,
          init_obj, best, curr, destroyed, cand, d_idx, r_idx, accepted, outcome, iteration,
          log_rows, stats, clock, calls, prev, min_seen, mutated>>

setup_vars == <<d_ops, r_ops, on_outcome, setup_calls>>

run_vars == <<pc, error, stop, stop_calls, obj, init_obj, best, curr, destroyed, cand, d_idx,
              r_idx, accepted, outcome, iteration, log_rows, stats, clock, calls,
              prev, min_seen, mutated>>

\* -------------------------------------------------------------- helpers
Min(a, b) == IF a <= b THEN a ELSE b

\* Keys of an insertion-ordered dict, in order.
keys(d) == [i \in 1..Len(d) |-> d[i][1]]

has_key(d, k) == \E i \in 1..Len(d) : d[i][1] = k

\* dict_set with a key that is set again moved to the end.
dict_set_moves_to_end(d, k, v) ==
    Append(SelectSeq(d, LAMBDA e : e[1] /= k), <<k, v>>)

\* d[k] = v on a Python dict: an existing key keeps its position and gets
\* the new value, a new key goes to the end.
dict_set(d, k, v) ==
    IF has_key(d, k)
    THEN [i \in 1..Len(d) |-> IF d[i][1] = k THEN <<k, v>> ELSE d[i]]
    ELSE Append(d, <<k, v>>)

\* list(self._d_ops.items()) / list(self._r_ops.items())
destroy_operators == d_ops

repair_operators == r_ops

\* The key add_destroy_operator stores op under: op.__name__ if name is None else name
destroy_key(op, name) == IF name = NoName THEN op ELSE name

\* The key add_repair_operator stores op under: name if name else op.__name__
\* (None and the empty string are both falsy).
repair_key(op, name) == IF name /= NoName /\ name /= "" THEN name ELSE op

\* A fresh Statistics object.
Statistics ==
    [objectives |-> <<>>, runtimes |-> <<>>,
     destroy_operator_counts |-> [n \in {} |-> 0],
     repair_operator_counts |-> [n \in {} |-> 0]]

\* counts[name][outcome] += 1 on a defaultdict of per-outcome counters.
collect_operator(counts, name, oc) ==
    LET old == IF name \in DOMAIN counts THEN counts[name] ELSE [o \in Outcomes |-> 0]
    IN [n \in DOMAIN counts \cup {name} |->
            IF n = name THEN [old EXCEPT ![oc] = @ + 1] ELSE counts[n]]

\* One entry of the call history.
Call(name, who, arg, ret) == [call |-> name, who |-> who, arg |-> arg, ret |-> ret]

\* ---------------------------------------------------------------- state
\* No call of iterate() made yet.
NotStarted ==
    /\ pc = "idle"
    /\ error = ""
    /\ stop = [kind |-> "MaxIterations", has_max_iterations |-> TRUE, max_iterations |-> 0]
    /\ stop_calls = 0
    /\ obj = <<>>
    /\ init_obj = 0
    /\ best = NoState
    /\ curr = NoState
    /\ destroyed = NoState
    /\ cand = NoState
    /\ d_idx = 0
    /\ r_idx = 0
    /\ accepted = FALSE
    /\ outcome = ""
    /\ iteration = 0
    /\ log_rows = 0
    /\ stats = Statistics
    /\ clock = 0
    /\ calls = <<>>
    /\ prev = [best |-> NoState, curr |-> NoState, best_obj |-> 0, curr_obj |-> 0]
    /\ min_seen = 0
    /\ mutated = FALSE

\* The engine after __init__ (lines 136-143): empty registries, no callback.
Constructed ==
    /\ d_ops = <<>>
    /\ r_ops = <<>>
    /\ on_outcome = [o \in Outcomes |-> NoCallback]
    /\ setup_calls = 0
    /\ NotStarted

\* The callback table with func registered for the outcomes in ocs.
table(ocs, func) == [o \in Outcomes |-> IF o \in ocs THEN func ELSE NoCallback]

\* The outcomes a callback is registered for.
registered == {o \in Outcomes : on_outcome[o] /= NoCallback}

\* The engines iterate() is run on: each is what at most three registration
\* calls leave behind (SpecRegistry reaches every one of them).  Either registry may be empty; there are one or two destroy
\* operators and one repair operator, or one destroy and two repair
\* operators, each under its own name; no callback, or (on the engines with
\* one operator each) a callback for one outcome.
Engines ==
    LET one == <<"f", "f">>
        two == <<"g", "g">>
        regs == {<< <<>>, <<>> >>, << <<one>>, <<>> >>, << <<>>, <<one>> >>,
                 << <<one>>, <<one>> >>, << <<one, two>>, <<one>> >>,
                 << <<one>>, <<one, two>> >>}
        tables == {table({}, "cb1")} \cup {table({o}, "cb1") : o \in Outcomes}
    IN {[d_ops |-> r[1], r_ops |-> r[2], on_outcome |-> t] :
            <<r, t>> \in {x \in regs \X tables :
                            Len(x[1][1]) + Len(x[1][2]) > 2 => x[2] = table({}, "cb1")}}

\* A configured engine, before iterate() is called.
Init ==
    /\ \E e \in Engines :
        /\ d_ops = e.d_ops
        /\ r_ops = e.r_ops
        /\ on_outcome = e.on_outcome
    /\ setup_calls = Len(d_ops) + Len(r_ops) + Cardinality(registered)
    /\ NotStarted

\* ------------------------------------------------------- registration
add_destroy_operator(op, name) ==
    /\ pc = "idle"
    /\ setup_calls < MaxSetupCalls
    /\ d_ops' = dict_set(d_ops, destroy_key(op, name), op)
    /\ setup_calls' = setup_calls + 1
    /\ UNCHANGED <<r_ops, on_outcome>>
    /\ UNCHANGED run_vars

add_repair_operator(op, name) ==
    /\ pc = "idle"
    /\ setup_calls < MaxSetupCalls
    /\ r_ops' = dict_set(r_ops, repair_key(op, name), op)
    /\ setup_calls' = setup_calls + 1
    /\ UNCHANGED <<d_ops, on_outcome>>
    /\ UNCHANGED run_vars

\* self._on_outcome[oc] = func, shared by on_best, on_better, on_accept, on_reject
set_callback(oc, func) ==
    /\ pc = "idle"
    /\ setup_calls < MaxSetupCalls
    /\ on_outcome' = [on_outcome EXCEPT ![oc] = func]
    /\ setup_calls' = setup_calls + 1
    /\ UNCHANGED <<d_ops, r_ops>>
    /\ UNCHANGED run_vars

on_best(func) == set_callback("BEST", func)

on_better(func) == set_callback("BETTER", func)

on_accept(func) == set_callback("ACCEPT", func)

on_reject(func) == set_callback("REJECT", func)

\* ------------------------------------------------------ classification
\* determine_outcome with the new-best test made only for accepted candidates.
determine_outcome_best_if_accepted(acc, best_obj, curr_obj, cand_obj) ==
    IF ~acc THEN "REJECT"
    ELSE IF cand_obj < best_obj THEN "BEST"
    ELSE IF cand_obj < curr_obj THEN "BETTER"
    ELSE "ACCEPT"

\* determine_outcome with <= in place of < against curr.
determine_outcome_not_strict(acc, best_obj, curr_obj, cand_obj) ==
    LET o1 == IF acc THEN "ACCEPT" ELSE "REJECT"
        o2 == IF acc /\ cand_obj <= curr_obj THEN "BETTER" ELSE o1
    IN IF cand_obj < best_obj THEN "BEST" ELSE o2

\* determine_outcome without the new-best test of lines 450-451.
determine_outcome_never_best(acc, best_obj, curr_obj, cand_obj) ==
    IF ~acc THEN "REJECT"
    ELSE IF cand_obj < curr_obj THEN "BETTER"
    ELSE "ACCEPT"

\* _determine_outcome, given the verdict of accept(rng, best, curr, cand) and
\* the three objectives.
determine_outcome(acc, best_obj, curr_obj, cand_obj) ==
    LET o0 == "REJECT"
        o1 == IF acc THEN "ACCEPT" ELSE o0
        o2 == IF acc /\ cand_obj < curr_obj THEN "BETTER" ELSE o1
        o3 == IF cand_obj < best_obj THEN "BEST" ELSE o2
    IN o3

\* eval_cand_result with curr replaced on REJECT too.
eval_cand_result_reject_moves(oc, b, c, x) ==
    IF oc = "BEST" THEN [best |-> x, curr |-> x] ELSE [best |-> b, curr |-> x]

\* eval_cand_result with best left as it was on BEST.
eval_cand_result_best_kept(oc, b, c, x) ==
    IF oc = "REJECT" THEN [best |-> b, curr |-> c] ELSE [best |-> b, curr |-> x]

\* eval_cand_result with best replaced on ACCEPT too.
eval_cand_result_accept_is_best(oc, b, c, x) ==
    IF oc \in {"BEST", "ACCEPT"} THEN [best |-> x, curr |-> x]
    ELSE IF oc = "REJECT" THEN [best |-> b, curr |-> c]
    ELSE [best |-> b, curr |-> x]

\* What _eval_cand returns for best and curr, by outcome.
eval_cand_result(oc, b, c, x) ==
    IF oc = "BEST" THEN [best |-> x, curr |-> x]
    ELSE IF oc = "REJECT" THEN [best |-> b, curr |-> c]
    ELSE [best |-> b, curr |-> x]

\* The verdict of a fixed-iteration-budget criterion on its n-th evaluation
\* (n evaluations made before): it counts its calls and stops once the
\* budget is used up.
max_iterations_verdict(criterion, n) == n >= criterion.max_iterations

\* The guard of line 278 with the repair registry forgotten.
missing_operators_destroy_only == Len(destroy_operators) = 0

\* The guard of line 278.
missing_operators == Len(destroy_operators) = 0 \/ Len(repair_operators) = 0

\* step_after with the statistics recorded before the selection scheme is updated.
step_after_record_first(step) ==
    CASE step = "stop" -> "select"
      [] step = "select" -> "destroy"
      [] step = "destroy" -> "repair"
      [] step = "repair" -> "accept"
      [] step = "accept" -> "callback"
      [] step = "callback" -> "record"
      [] step = "record" -> "update"
      [] step = "update" -> "stop"

\* step_after with the selection scheme updated before the callback runs
\* and the transition is made.
step_after_update_first(step) ==
    CASE step = "stop" -> "select"
      [] step = "select" -> "destroy"
      [] step = "destroy" -> "repair"
      [] step = "repair" -> "accept"
      [] step = "accept" -> "update"
      [] step = "update" -> "callback"
      [] step = "callback" -> "record"
      [] step = "record" -> "stop"

\* step_after with the acceptance criterion left out.
step_after_skip_accept(step) ==
    CASE step = "stop" -> "select"
      [] step = "select" -> "destroy"
      [] step = "destroy" -> "repair"
      [] step = "repair" -> "callback"
      [] step = "accept" -> "callback"
      [] step = "callback" -> "update"
      [] step = "update" -> "record"
      [] step = "record" -> "stop"

\* step_after with the loop head skipped after the first iteration.
step_after_no_recheck(step) ==
    CASE step = "stop" -> "select"
      [] step = "select" -> "destroy"
      [] step = "destroy" -> "repair"
      [] step = "repair" -> "accept"
      [] step = "accept" -> "callback"
      [] step = "callback" -> "update"
      [] step = "update" -> "record"
      [] step = "record" -> "select"

\* Program order of the loop body of iterate(), lines 302-350.
step_after(step) ==
    CASE step = "stop" -> "select"
      [] step = "select" -> "destroy"
      [] step = "destroy" -> "repair"
      [] step = "repair" -> "accept"
      [] step = "accept" -> "callback"
      [] step = "callback" -> "update"
      [] step = "update" -> "record"
      [] step = "record" -> "stop"

\* stats.collect_objective / stats.collect_runtime
collect_objective(st, o) == [st EXCEPT !.objectives = Append(@, o)]

collect_runtime(st, t) == [st EXCEPT !.runtimes = Append(@, t)]

\* callback_for looking up the REJECT callback whatever the outcome.
callback_for_reject(oc) == on_outcome["REJECT"]

\* Line 413: func = self._on_outcome.get(outcome)
callback_for(oc) == on_outcome[oc]

\* raise with the exception swallowed: the loop goes on at its head.
raise_and_continue(e, unchanged_vars) ==
    /\ pc' = "stop"
    /\ error' = e
    /\ UNCHANGED unchanged_vars

\* An exception leaves iterate(): nothing else of the state changes.
raise(e, unchanged_vars) ==
    /\ pc' = "raised"
    /\ error' = e
    /\ UNCHANGED unchanged_vars

\* ------------------------------------------------------------ iterate()
\* Lines 278-300: the registry check, best = curr = initial_solution, the
\* first statistics, and the two operator logs.
iterate(initial_objective, stop_arg) ==
    /\ pc = "idle"
    /\ IF missing_operators
       THEN /\ raise("ValueError", <<stop, stop_calls, obj, init_obj, best, curr, iteration,
                                      log_rows, stats, clock, min_seen>>)
       ELSE /\ stop' = stop_arg
            /\ stop_calls' = 0
            /\ obj' = <<initial_objective>>
            /\ init_obj' = initial_objective
            /\ best' = 1
            /\ curr' = 1
            /\ min_seen' = initial_objective
            /\ stats' = collect_runtime(collect_objective(Statistics, initial_objective),
                                        clock)
            /\ clock' = clock + 1
            /\ iteration' = 0
            /\ IF ~stop_arg.has_max_iterations
               THEN \* line 292: stop._max_iterations
                    /\ pc' = "raised" /\ error' = "AttributeError"
                    /\ UNCHANGED log_rows
               ELSE IF stop_arg.max_iterations = 0
               THEN \* line 295: row 0 of an array with no rows
                    /\ pc' = "raised" /\ error' = "IndexError"
                    /\ log_rows' = stop_arg.max_iterations
               ELSE /\ pc' = "stop" /\ error' = ""
                    /\ log_rows' = stop_arg.max_iterations
    /\ UNCHANGED <<destroyed, cand, d_idx, r_idx, accepted, outcome, calls, prev, mutated>>
    /\ UNCHANGED setup_vars

\* Line 302: while not stop(self._rng, best, curr); lines 352-354 when it stops.
stop_check ==
    /\ pc = "stop"
    /\ \/ /\ \E verdict \in BOOLEAN :
                /\ stop.kind = "MaxIterations" => verdict = max_iterations_verdict(stop, stop_calls)
                /\ pc' = IF verdict THEN "returned" ELSE step_after("stop")
                /\ calls' = Append(calls, Call("stop", "", <<best, curr>>, verdict))
          /\ stop_calls' = stop_calls + 1
          /\ prev' = [best |-> best, curr |-> curr,
                      best_obj |-> obj[best], curr_obj |-> obj[curr]]
          /\ UNCHANGED error
       \/ raise("CollaboratorError", <<stop_calls, calls, prev>>)
    /\ UNCHANGED <<stop, obj, init_obj, best, curr, destroyed, cand, d_idx, r_idx, accepted,
                   outcome, iteration, log_rows, stats, clock, min_seen, mutated>>
    /\ UNCHANGED setup_vars

\* Lines 303-306: d_idx, r_idx = op_select(self._rng, best, curr)
select ==
    /\ pc = "select"
    /\ \/ /\ d_idx' \in 0..(Len(destroy_operators) - 1)
          /\ r_idx' \in 0..(Len(repair_operators) - 1)
          /\ calls' = Append(calls, Call("select", "", best, curr))
          /\ pc' = step_after("select")
          /\ UNCHANGED error
       \/ raise("CollaboratorError", <<d_idx, r_idx, calls>>)
    /\ UNCHANGED <<stop, stop_calls, obj, init_obj, best, curr, destroyed, cand, accepted,
                   outcome, iteration, log_rows, stats, clock, prev, min_seen, mutated>>
    /\ UNCHANGED setup_vars

\* Lines 312-314: destroyed = d_operator(curr, ...).  The operator gets the
\* live curr: it returns curr itself, untouched, or a copy of its own.
destroy ==
    /\ pc = "destroy"
    /\ \/ /\ \/ /\ destroyed' = curr
                /\ UNCHANGED obj
             \/ /\ destroyed' = Len(obj) + 1
                /\ obj' = Append(obj, obj[curr])
          /\ calls' = Append(calls, Call("destroy", destroy_operators[d_idx + 1][1],
                                         curr, destroyed'))
          /\ pc' = step_after("destroy")
          /\ UNCHANGED error
       \/ raise("CollaboratorError", <<destroyed, obj, calls>>)
    /\ UNCHANGED <<stop, stop_calls, init_obj, best, curr, cand, d_idx, r_idx, accepted, outcome,
                   iteration, log_rows, stats, clock, prev, min_seen, mutated>>
    /\ UNCHANGED setup_vars

\* Lines 315-323: cand = r_operator(destroyed, ...), then the two log rows
\* of this iteration are written.  The operator rebuilds the solution it is
\* given in place when that is a copy, and returns the live curr as it is.
repair ==
    /\ pc = "repair"
    /\ \/ /\ \/ /\ destroyed = curr
                /\ cand' = destroyed
                /\ UNCHANGED obj
             \/ /\ destroyed /= curr
                /\ cand' = destroyed
                /\ \E o \in Objectives : obj' = [obj EXCEPT ![destroyed] = o]
          /\ calls' = Append(calls, Call("repair", repair_operators[r_idx + 1][1],
                                         destroyed, cand'))
          /\ IF iteration < log_rows
             THEN pc' = step_after("repair") /\ UNCHANGED error
             ELSE \* line 318: row iteration is past the end of the log
                  pc' = "raised" /\ error' = "IndexError"
       \/ raise("CollaboratorError", <<cand, obj, calls>>)
    /\ UNCHANGED <<stop, stop_calls, init_obj, best, curr, destroyed, d_idx, r_idx, accepted,
                   outcome, iteration, log_rows, stats, clock, prev, min_seen, mutated>>
    /\ UNCHANGED setup_vars

\* Line 412: outcome = self._determine_outcome(accept, best, curr, cand),
\* which calls accept(self._rng, best, curr, cand) first (line 443).
accept ==
    /\ pc = "accept"
    /\ \/ /\ accepted' \in BOOLEAN
          /\ outcome' = determine_outcome(accepted', obj[best], obj[curr], obj[cand])
          /\ min_seen' = Min(min_seen, obj[cand])
          /\ calls' = Append(calls, Call("accept", "", cand, 0))
          /\ pc' = step_after("accept")
          /\ UNCHANGED error
       \/ raise("CollaboratorError", <<accepted, outcome, min_seen, calls>>)
    /\ UNCHANGED <<stop, stop_calls, obj, init_obj, best, curr, destroyed, cand, d_idx, r_idx,
                   iteration, log_rows, stats, clock, prev, mutated>>
    /\ UNCHANGED setup_vars

\* Lines 413-429 and the assignment of line 330: the callback registered for
\* the outcome, if any, is called with cand and may change it in place; then
\* best and curr are replaced.
callback ==
    /\ pc = "callback"
    /\ LET func == callback_for(outcome)
           res == eval_cand_result(outcome, best, curr, cand)
       IN \/ /\ func = NoCallback
             /\ best' = res.best
             /\ curr' = res.curr
             /\ pc' = step_after("callback")
             /\ UNCHANGED <<obj, mutated, calls, error>>
          \/ /\ func /= NoCallback
             /\ \E o \in Objectives :
                    /\ obj' = [obj EXCEPT ![cand] = o]
                    /\ mutated' = (mutated \/ o /= obj[cand])
             /\ calls' = Append(calls, Call("callback", func, cand, 0))
             /\ best' = res.best
             /\ curr' = res.curr
             /\ pc' = step_after("callback")
             /\ UNCHANGED error
          \/ /\ func /= NoCallback
             /\ raise("CollaboratorError", <<obj, mutated, calls, best, curr>>)
    /\ UNCHANGED <<stop, stop_calls, init_obj, destroyed, cand, d_idx, r_idx, accepted, outcome,
                   iteration, log_rows, stats, clock, prev, min_seen>>
    /\ UNCHANGED setup_vars

\* Line 343: op_select.update(cand, d_idx, r_idx, outcome)
update ==
    /\ pc = "update"
    /\ \/ /\ calls' = Append(calls, Call("update", outcome, cand, <<d_idx, r_idx>>))
          /\ pc' = step_after("update")
          /\ UNCHANGED error
       \/ raise("CollaboratorError", <<calls>>)
    /\ UNCHANGED <<stop, stop_calls, obj, init_obj, best, curr, destroyed, cand, d_idx, r_idx,
                   accepted, outcome, iteration, log_rows, stats, clock, prev,
                   min_seen, mutated>>
    /\ UNCHANGED setup_vars

\* recorded without the call of collect_repair_operator.
recorded_no_repair_count ==
    LET s1 == collect_objective(stats, obj[curr])
        s2 == [s1 EXCEPT !.destroy_operator_counts =
                    collect_operator(@, destroy_operators[d_idx + 1][1], outcome)]
    IN collect_runtime(s2, clock)

\* recorded without the call of collect_runtime.
recorded_no_runtime ==
    LET s1 == collect_objective(stats, obj[curr])
        s2 == [s1 EXCEPT !.destroy_operator_counts =
                    collect_operator(@, destroy_operators[d_idx + 1][1], outcome)]
    IN [s2 EXCEPT !.repair_operator_counts =
                    collect_operator(@, repair_operators[r_idx + 1][1], outcome)]

\* The statistics after lines 345-348 of the current iteration.
recorded ==
    LET s1 == collect_objective(stats, obj[curr])
        s2 == [s1 EXCEPT !.destroy_operator_counts =
                    collect_operator(@, destroy_operators[d_idx + 1][1], outcome)]
        s3 == [s2 EXCEPT !.repair_operator_counts =
                    collect_operator(@, repair_operators[r_idx + 1][1], outcome)]
    IN collect_runtime(s3, clock)

\* Lines 345-350: the statistics of the iteration, then iteration += 1.
record ==
    /\ pc = "record"
    /\ stats' = recorded
    /\ clock' = clock + 1
    /\ calls' = Append(calls, Call("record", outcome, curr, 0))
    /\ iteration' = iteration + 1
    /\ pc' = step_after("record")
    /\ UNCHANGED <<error, stop, stop_calls, obj, init_obj, best, curr, destroyed, cand, d_idx,
                   r_idx, accepted, outcome, log_rows, prev, min_seen, mutated>>
    /\ UNCHANGED setup_vars

\* Registration calls on a constructed engine.
NextRegistry ==
    \/ \E op \in Operators, name \in NameArgs : add_destroy_operator(op, name)
    \/ \E op \in Operators, name \in NameArgs : add_repair_operator(op, name)
    \/ \E func \in Callbacks : on_best(func)
    \/ \E func \in Callbacks : on_better(func)
    \/ \E func \in Callbacks : on_accept(func)
    \/ \E func \in Callbacks : on_reject(func)

SpecRegistry == Constructed /\ [][NextRegistry]_vars

\* One call of iterate() on a configured engine.
Next ==
    \/ \E o \in Objectives, s \in StoppingCriteria : iterate(o, s)
    \/ stop_check
    \/ select
    \/ destroy
    \/ repair
    \/ accept
    \/ callback
    \/ update
    \/ record

Spec == Init /\ [][Next]_vars

\* An engine with one destroy and one repair operator registered and no
\* callback yet; the registrations of callbacks are counted from here.
OneOperatorEach ==
    /\ d_ops = << <<"f", "f">> >>
    /\ r_ops = << <<"f", "f">> >>
    /\ on_outcome = [o \in Outcomes |-> NoCallback]
    /\ setup_calls = 0
    /\ NotStarted

\* A fixed budget of two iterations: the least in which each of the four
\* outcomes can occur (BETTER needs a curr that is worse than best).
TwoIterations ==
    [kind |-> "MaxIterations", has_max_iterations |-> TRUE, max_iterations |-> 2]

\* Callbacks are registered on that engine, then iterate() runs once with
\* that budget.
NextLifecycle ==
    \/ \E func \in Callbacks : on_best(func)
    \/ \E func \in Callbacks : on_better(func)
    \/ \E func \in Callbacks : on_accept(func)
    \/ \E func \in Callbacks : on_reject(func)
    \/ iterate(1, TwoIterations)
    \/ stop_check
    \/ select
    \/ destroy
    \/ repair
    \/ accept
    \/ callback
    \/ update
    \/ record

SpecLifecycle == OneOperatorEach /\ [][NextLifecycle]_vars

\* The classification of _determine_outcome on every combination of inputs:
\* the engine stands before line 412 with three solutions of any objectives
\* as best, curr and cand; curr may be best itself.
InitClassify ==
    /\ d_ops = << <<"f", "f">> >>
    /\ r_ops = << <<"f", "f">> >>
    /\ on_outcome = table({}, "cb1")
    /\ setup_calls = 2
    /\ pc = "accept"
    /\ error = ""
    /\ stop = [kind |-> "MaxIterations", has_max_iterations |-> TRUE,
               max_iterations |-> MaxBudget]
    /\ stop_calls = 1
    /\ obj \in [1..3 -> Objectives]
    /\ init_obj = obj[1]
    /\ best = 1
    /\ curr \in {1, 2}
    /\ destroyed = 3
    /\ cand = 3
    /\ d_idx = 0
    /\ r_idx = 0
    /\ accepted = FALSE
    /\ outcome = ""
    /\ iteration = 0
    /\ log_rows = MaxBudget
    /\ stats = collect_runtime(collect_objective(Statistics, obj[1]), 0)
    /\ clock = 1
    /\ calls = <<>>
    /\ prev = [best |-> best, curr |-> curr, best_obj |-> obj[best], curr_obj |-> obj[curr]]
    /\ min_seen = Min(obj[best], obj[curr])
    /\ mutated = FALSE

NextClassify == accept

SpecClassify == InitClassify /\ [][NextClassify]_vars

\* ---------------------------------------------------------------- claims
\* The engine is at an iteration boundary: at the loop head, or returned.
AtBoundary == pc \in {"stop", "returned"}

\* One of the two registries holds no operator.
EmptyRegistry == d_ops = <<>> \/ r_ops = <<>>

\* C1: right after classification the outcome is BEST exactly when the
\* candidate's objective is below the objective best had at the loop head,
\* whatever the acceptance criterion answered.
C1_BestIffImproves ==
    pc = "callback" => ((outcome = "BEST") <=> (obj[cand] < prev.best_obj))

\* C1 witness: a candidate the acceptance criterion turned down is BEST.
C1_Witness == pc = "callback" /\ ~accepted /\ outcome = "BEST"

\* C2: for a candidate that is not a new best, BETTER is exactly accepted and
\* below curr, ACCEPT exactly accepted and not below curr, REJECT exactly not
\* accepted; an objective equal to curr's is never BETTER, one equal to
\* best's never BEST.
C2_Classification ==
    pc = "callback" =>
        LET x == obj[cand]
            c == obj[curr]
            b == obj[best]
        IN /\ ~(x < b) =>
                /\ (outcome = "BETTER") <=> (accepted /\ x < c)
                /\ (outcome = "ACCEPT") <=> (accepted /\ x >= c)
                /\ (outcome = "REJECT") <=> ~accepted
           /\ x = c => outcome /= "BETTER"
           /\ x = b => outcome /= "BEST"

\* C2 witness: a candidate level with best and below curr is BETTER.
C2_Witness ==
    pc = "callback" /\ outcome = "BETTER" /\ obj[cand] = obj[best] /\ obj[cand] < obj[curr]

\* The identities of best and curr after the transition, by outcome.
TransitionByOutcome ==
    /\ outcome = "BEST" => best = cand /\ curr = cand
    /\ outcome \in {"BETTER", "ACCEPT"} => best = prev.best /\ curr = cand
    /\ outcome = "REJECT" => best = prev.best /\ curr = prev.curr

\* C3 as stated: after the transition best and curr are as the outcome
\* dictates, and on REJECT curr also has the objective it had before.
C3_Original ==
    pc = "update" =>
        /\ TransitionByOutcome
        /\ outcome = "REJECT" => obj[curr] = prev.curr_obj

\* C3 amended: after the transition best and curr are the solutions the
\* outcome dictates; on REJECT curr keeps its objective too, unless the
\* candidate was curr itself and a callback is registered for REJECT.
C3_Transition ==
    pc = "update" =>
        /\ TransitionByOutcome
        /\ (outcome = "REJECT" /\ obj[curr] /= prev.curr_obj) =>
                (cand = curr /\ on_outcome["REJECT"] /= NoCallback)

\* C3 witness: a rejected candidate that is not curr, with a REJECT callback
\* that changed it, has left curr and its objective alone.
C3_Witness ==
    /\ pc = "update"
    /\ outcome = "REJECT"
    /\ cand /= curr
    /\ mutated
    /\ obj[curr] = prev.curr_obj

\* C4 as stated: at every iteration boundary the objective of best is the
\* least objective read so far.
C4_Original == (AtBoundary /\ best /= NoState) => obj[best] = min_seen

\* C4 amended: the same, in runs where no callback has changed the objective
\* of a solution.
C4_BestIsMinimum == (AtBoundary /\ best /= NoState /\ ~mutated) => obj[best] = min_seen

\* C4 witness: a run has returned with a best below the initial objective,
\* a callback was called and changed nothing.
C4_Witness ==
    /\ pc = "returned"
    /\ ~mutated
    /\ obj[best] < init_obj
    /\ \E i \in 1..Len(calls) : calls[i].call = "callback"

\* C5 as stated: at the loop head after an iteration the objective of best
\* is at most what it was at the loop head before it.
C5_Original == (pc = "stop" /\ iteration > 0) => obj[best] <= prev.best_obj

\* C5 amended: the same, in runs where no callback has changed the objective
\* of a solution.
C5_BestNonIncreasing ==
    (pc = "stop" /\ iteration > 0 /\ ~mutated) => obj[best] <= prev.best_obj

\* C5 witness: the second iteration lowered best again.
C5_Witness ==
    /\ pc = "stop"
    /\ iteration = 2
    /\ ~mutated
    /\ obj[best] < prev.best_obj
    /\ prev.best_obj < init_obj

\* C6: at every iteration boundary the objective trace has one entry more
\* than there are completed iterations, it starts with the initial
\* objective, and the runtime trace is as long.
C6_TraceLengths ==
    (AtBoundary /\ best /= NoState) =>
        /\ Len(stats.objectives) = iteration + 1
        /\ stats.objectives[1] = init_obj
        /\ Len(stats.runtimes) = Len(stats.objectives)

\* C6 witness: iterate() has returned after two iterations.
C6_Witness == pc = "returned" /\ iteration = 2 /\ Len(stats.runtimes) = 3

\* C7 as stated: with both registries filled and an iteration budget of 0,
\* iterate() raises nothing, calls no operator, returns the initial solution
\* and leaves only the initial objective in the statistics.
C7_Original ==
    (pc /= "idle" /\ ~EmptyRegistry
        /\ stop.kind = "MaxIterations" /\ stop.max_iterations = 0) =>
        /\ pc \in {"stop", "returned"}
        /\ error = ""
        /\ pc = "returned" =>
            /\ best = 1
            /\ stats.objectives = <<init_obj>>
            /\ \A i \in 1..Len(calls) : calls[i].call = "stop"

\* C8: with an empty registry iterate() raises ValueError and nothing else
\* has happened: no collaborator was called, no statistic recorded, no
\* solution taken; and ValueError is raised in no other case.
C8_EmptyRegistry ==
    /\ (pc /= "idle" /\ EmptyRegistry) =>
            /\ pc = "raised"
            /\ error = "ValueError"
            /\ calls = <<>>
            /\ stop_calls = 0
            /\ stats = Statistics
            /\ best = NoState
    /\ error = "ValueError" => EmptyRegistry

\* C8 witness: iterate() was refused for want of a repair operator alone.
C8_Witness ==
    /\ pc = "raised"
    /\ error = "ValueError"
    /\ Len(destroy_operators) > 0
    /\ Len(repair_operators) = 0

\* C9 as stated: with a stopping criterion of another kind the criterion is
\* never evaluated, no step of an iteration runs, and the error iterate()
\* raises is the one of an empty registry.
C9_Original ==
    (pc /= "idle" /\ ~EmptyRegistry /\ stop.kind /= "MaxIterations") =>
        /\ stop_calls = 0
        /\ pc \in {"stop", "raised"}
        /\ pc = "raised" => error = "ValueError"

\* The calls that may follow one another.
CallOrder ==
    {<<"stop", "select">>, <<"select", "destroy">>, <<"destroy", "repair">>,
     <<"repair", "accept">>, <<"accept", "callback">>, <<"accept", "update">>,
     <<"callback", "update">>, <<"update", "record">>, <<"record", "stop">>}

\* C10: the calls of a run come in the order stop, select, destroy (on
\* curr), repair (on what destroy returned), accept, the callback exactly
\* when one is registered for the outcome, update, record; the next
\* iteration's first call follows the record of this one.
C10_CallOrder ==
    /\ calls /= <<>> => calls[1].call = "stop"
    /\ \A i \in 1..(Len(calls) - 1) :
        LET a == calls[i]
            b == calls[i + 1]
        IN /\ <<a.call, b.call>> \in CallOrder
           /\ b.call = "destroy" => b.arg = a.ret
           /\ b.call = "repair" => b.arg = a.ret
           /\ b.call = "accept" => b.arg = a.ret
           /\ b.call = "update" =>
                IF on_outcome[b.who] = NoCallback
                THEN a.call = "accept"
                ELSE a.call = "callback" /\ a.who = on_outcome[b.who] /\ a.arg = b.arg

\* C10 witness: a callback was called in one iteration and the next one
\* has started.
C10_Witness ==
    \E i \in 1..Len(calls) :
        /\ calls[i].call = "callback"
        /\ \E j \in (i + 1)..Len(calls) : calls[j].call = "select"

\* The number of calls of a collaborator in the history.
CallCount(name) == Cardinality({i \in 1..Len(calls) : calls[i].call = name})

\* iterate() is inside the loop body.
InBody == pc \in {"select", "destroy", "repair", "accept", "callback", "update", "record"}

\* iterate() was called with operators registered and a fixed budget of at
\* least one iteration.
HasBudget ==
    /\ pc /= "idle"
    /\ ~EmptyRegistry
    /\ stop.kind = "MaxIterations"
    /\ stop.max_iterations >= 1

\* C12: iterate() has returned exactly when the last call was a stop that
\* answered true; stop is evaluated first and then only right after the
\* statistics of an iteration, k + 1 times for k completed iterations; with
\* a budget of N >= 1 the counter is in 0..N-1 inside the loop body, the
\* engine raises nothing of its own, a step that does not raise is always
\* possible until the return, and the return comes after exactly N
\* iterations with best set and the statistics of N iterations.
C12_Termination ==
    /\ (pc = "returned") <=>
            (calls /= <<>> /\ calls[Len(calls)].call = "stop" /\ calls[Len(calls)].ret)
    /\ \A i \in 1..Len(calls) :
            calls[i].call = "stop" =>
                /\ i = 1 \/ calls[i - 1].call = "record"
                /\ calls[i].arg \in (1..Len(obj)) \X (1..Len(obj))
    /\ (pc \in {"stop", "returned"} \/ InBody) =>
            /\ iteration = CallCount("record")
            /\ stop_calls = CallCount("stop")
            /\ CallCount("stop") = iteration + (IF pc = "stop" THEN 0 ELSE 1)
    /\ HasBudget =>
            /\ iteration <= stop.max_iterations
            /\ InBody => iteration \in 0..(stop.max_iterations - 1)
            /\ pc = "raised" => error = "CollaboratorError"
            /\ (pc = "stop" \/ InBody) => ENABLED (Next /\ pc' /= "raised")
            /\ pc = "returned" =>
                    /\ iteration = stop.max_iterations
                    /\ best \in 1..Len(obj)
                    /\ Len(stats.objectives) = stop.max_iterations + 1

\* C12 witness: a run with the largest budget has returned after as many
\* iterations, the criterion having been evaluated once more than that.
C12_Witness ==
    /\ pc = "returned"
    /\ HasBudget
    /\ stop.max_iterations = MaxBudget
    /\ iteration = MaxBudget
    /\ CallCount("stop") = MaxBudget + 1

\* The table holds one callback at most for each outcome, and every update
\* in the history (called with the outcome of its iteration) comes right
\* after accept when no callback is registered for that outcome, and else
\* right after one call, next to accept, of the callback registered for it,
\* made with the candidate.
CallbackOfOutcome ==
    /\ \A oc \in Outcomes : on_outcome[oc] \in Callbacks \cup {NoCallback}
    /\ \A i \in 1..Len(calls) :
        calls[i].call = "update" =>
            IF on_outcome[calls[i].who] = NoCallback
            THEN calls[i - 1].call = "accept"
            ELSE /\ calls[i - 1].call = "callback"
                 /\ calls[i - 1].who = on_outcome[calls[i].who]
                 /\ calls[i - 1].arg = calls[i].arg
                 /\ calls[i - 2].call = "accept"
    /\ \A i \in 1..Len(calls) :
        calls[i].call = "callback" =>
            /\ calls[i - 1].call = "accept"
            /\ calls[i].arg = calls[i - 1].arg

\* A registration puts func in the entry of its own outcome, whatever was
\* there, and leaves the other entries alone.
Registers(oc, func) == on_outcome' = [on_outcome EXCEPT ![oc] = func]

RegistrationReplaces ==
    \A func \in Callbacks :
        /\ on_best(func) => Registers("BEST", func)
        /\ on_better(func) => Registers("BETTER", func)
        /\ on_accept(func) => Registers("ACCEPT", func)
        /\ on_reject(func) => Registers("REJECT", func)

\* The step that runs the callback keeps the outcome and makes the
\* transition that outcome dictates, whatever becomes of the objectives.
TransitionFixed ==
    (pc = "callback" /\ pc' = "update") =>
        /\ outcome' = outcome
        /\ cand' = cand
        /\ best' = (IF outcome = "BEST" THEN cand ELSE best)
        /\ curr' = (IF outcome = "REJECT" THEN curr ELSE cand)

\* C13: one callback at most is held per outcome and a registration
\* replaces what was registered for that outcome; in every iteration the
\* callback registered for the outcome is called once with the candidate,
\* and none when none is registered; the outcome and the transition of the
\* iteration are those classified before the callback ran.
C13_Callbacks ==
    /\ []CallbackOfOutcome
    /\ [][RegistrationReplaces]_vars
    /\ [][TransitionFixed]_vars

\* C13 witness: REJECT was registered twice and nothing else; the callback
\* held for it was called on a rejected candidate and left it below best,
\* and best and curr are still the solutions they were.
C13_Witness ==
    /\ pc = "update"
    /\ setup_calls = 2
    /\ registered = {"REJECT"}
    /\ on_outcome["REJECT"] = "cb2"
    /\ outcome = "REJECT"
    /\ calls[Len(calls)] = Call("callback", "cb2", cand, 0)
    /\ obj[cand] < obj[best]
    /\ best = prev.best
    /\ curr = prev.curr

\* C14: once a collaborator has raised, iterate() is left with that error:
\* it has not returned and no step is possible any more, so nothing of the
\* broken iteration runs later and no iteration starts; the selection
\* scheme was updated and the statistics were recorded for the completed
\* iterations only.
C14_FailStop ==
    /\ error /= "" => pc = "raised"
    /\ pc = "raised" => ~ENABLED Next
    /\ (pc = "raised" /\ error = "CollaboratorError") =>
            /\ CallCount("update") = iteration
            /\ CallCount("record") = iteration
            /\ Len(stats.objectives) = iteration + 1
            /\ Len(stats.runtimes) = iteration + 1
            /\ CallCount("stop") = iteration + 1 \/ calls = <<>>
                    \/ calls[Len(calls)].call = "record"

\* C14 witness: the callback registered for the outcome of the second
\* iteration raised: accept was the last call that returned.
C14_Witness ==
    /\ pc = "raised"
    /\ error = "CollaboratorError"
    /\ iteration = 1
    /\ calls[Len(calls)].call = "accept"
    /\ on_outcome[outcome] /= NoCallback

\* Registry after holds what registry before held, with op stored under
\* name n: in the place n already had, or at the end when n is new.
Stored(before, after, n, op) ==
    IF \E i \in 1..Len(before) : before[i][1] = n
    THEN /\ Len(after) = Len(before)
         /\ \A i \in 1..Len(before) :
                /\ after[i][1] = before[i][1]
                /\ after[i][2] = (IF before[i][1] = n THEN op ELSE before[i][2])
    ELSE after = before \o << <<n, op>> >>

\* The names of a registry are pairwise different.
DistinctNames(reg) ==
    \A i, j \in 1..Len(reg) : reg[i][1] = reg[j][1] => i = j

\* A registration stores the operator under the operator's name or the
\* name passed, in its own registry only.
RegistrationKeepsOrder ==
    \A op \in Operators, name \in NameArgs :
        /\ add_destroy_operator(op, name) =>
                /\ \E n \in {op, name} \ {NoName} :
                        Stored(destroy_operators, destroy_operators', n, op)
                /\ repair_operators' = repair_operators
        /\ add_repair_operator(op, name) =>
                /\ \E n \in {op, name} \ {NoName} :
                        Stored(repair_operators, repair_operators', n, op)
                /\ destroy_operators' = destroy_operators

\* C15: the two lists hold one pair per registered name; a registration
\* under a new name appends a pair, one under a name already there puts the
\* operator in that name's pair and moves nothing, so the names stand in
\* the order of their first registration; a registration in one registry
\* leaves the other as it was.
C15_Registries ==
    /\ [](DistinctNames(destroy_operators) /\ DistinctNames(repair_operators))
    /\ [][RegistrationKeepsOrder]_vars

\* C15 witness: three destroy registrations and nothing else have left two
\* pairs; the first name now holds the other operator.
C15_Witness ==
    /\ setup_calls = 3
    /\ destroy_operators = << <<"f", "g">>, <<"g", "g">> >>
    /\ repair_operators = <<>>
    /\ registered = {}

\* The name the claim gives a registration: the name passed whenever one is
\* passed, the operator's own name when none is.
NameByRule(op, name) == IF name = NoName THEN op ELSE name

\* C16 as stated: both methods store the operator under the name passed
\* whenever one is passed, the empty string included, and under the
\* operator's own name only when none is passed.
C16_Original ==
    [][\A op \in Operators, name \in NameArgs :
        /\ add_destroy_operator(op, name) =>
                Stored(destroy_operators, destroy_operators', NameByRule(op, name), op)
        /\ add_repair_operator(op, name) =>
                Stored(repair_operators, repair_operators', NameByRule(op, name), op)]_vars

\* The places in the history of the records that close an iteration, and
\* of the destroy and repair calls of the iteration closed at place j.
Completed == {j \in 1..Len(calls) : calls[j].call = "record"}

DestroyOf(j) == IF calls[j - 2].call = "callback" THEN j - 5 ELSE j - 4

RepairOf(j) == DestroyOf(j) + 1

\* The counter of operator n and outcome oc, 0 when never counted.
CountOf(counts, n, oc) == IF n \in DOMAIN counts THEN counts[n][oc] ELSE 0

RECURSIVE SumOver(_, _)
SumOver(f, S) ==
    IF S = {} THEN 0
    ELSE LET x == CHOOSE y \in S : TRUE IN f[x] + SumOver(f, S \ {x})

\* The sum of all the counters of one kind of operator.
Total(counts) ==
    SumOver([n \in DOMAIN counts |-> SumOver(counts[n], Outcomes)], DOMAIN counts)

\* Every counter is the number of completed iterations that applied that
\* operator and ended with that outcome; each kind sums to the iterations.
CountersByOperator ==
    /\ \A n \in Operators \cup NameArgs, oc \in Outcomes :
        /\ CountOf(stats.destroy_operator_counts, n, oc) =
                Cardinality({j \in Completed :
                    calls[DestroyOf(j)].who = n /\ calls[j - 1].who = oc})
        /\ CountOf(stats.repair_operator_counts, n, oc) =
                Cardinality({j \in Completed :
                    calls[RepairOf(j)].who = n /\ calls[j - 1].who = oc})
    /\ DOMAIN stats.destroy_operator_counts \subseteq Operators \cup NameArgs
    /\ DOMAIN stats.repair_operator_counts \subseteq Operators \cup NameArgs
    /\ Total(stats.destroy_operator_counts) = iteration
    /\ Total(stats.repair_operator_counts) = iteration

\* The last entry of the objective trace is the objective of curr.
TraceFollowsCurr == stats.objectives[Len(stats.objectives)] = obj[curr]

\* Every completed iteration was counted as REJECT.
AllReject ==
    \A n \in Operators \cup NameArgs, oc \in Outcomes \ {"REJECT"} :
        CountOf(stats.destroy_operator_counts, n, oc) = 0

\* The objective trace is the initial objective, once more than there are
\* completed iterations.
FlatTrace == stats.objectives = [k \in 1..(iteration + 1) |-> init_obj]

\* C17 as stated: at every iteration boundary the trace ends with the
\* objective of curr, the counters count the completed iterations by
\* operator name and outcome and sum to their number, and a run of REJECT
\* iterations alone has a flat trace.
C17_Original ==
    (AtBoundary /\ best /= NoState) =>
        /\ TraceFollowsCurr
        /\ CountersByOperator
        /\ AllReject => FlatTrace

\* C17 amended: the same, the flat trace holding for the runs of REJECT
\* iterations in which no callback has changed the objective of a solution.
C17_Statistics ==
    (AtBoundary /\ best /= NoState) =>
        /\ TraceFollowsCurr
        /\ CountersByOperator
        /\ (AllReject /\ ~mutated) => FlatTrace

\* C17 witness: two iterations were rejected, the REJECT callback was
\* called in both and changed nothing, and the trace is flat.
C17_Witness ==
    /\ pc = "returned"
    /\ iteration = 2
    /\ AllReject
    /\ ~mutated
    /\ CallCount("callback") = 2
    /\ Total(stats.repair_operator_counts) = 2
    /\ FlatTrace

\* The place in the history of the accept call of the iteration whose
\* update is at place i.
AcceptOf(i) == IF calls[i - 1].call = "callback" THEN i - 2 ELSE i - 1

\* C18: every update in the history belongs to an iteration that ran: it
\* follows the select, destroy, repair and accept calls of that iteration
\* (and its callback), is given the candidate repair returned and accept
\* judged, the indices of the operators that were applied, and is followed
\* by the statistics of the iteration; when it has been called best and
\* curr are already those of the outcome it is given; and there is one
\* update per completed iteration.
C18_Update ==
    /\ \A i \in 1..Len(calls) :
        calls[i].call = "update" =>
            LET a == AcceptOf(i)
                d == calls[i].ret[1]
                r == calls[i].ret[2]
            IN /\ calls[a].call = "accept"
               /\ calls[a - 1].call = "repair"
               /\ calls[a - 2].call = "destroy"
               /\ calls[a - 3].call = "select"
               /\ calls[i].arg = calls[a].arg
               /\ calls[i].arg = calls[a - 1].ret
               /\ d \in 0..(Len(destroy_operators) - 1)
               /\ r \in 0..(Len(repair_operators) - 1)
               /\ calls[a - 2].who = destroy_operators[d + 1][1]
               /\ calls[a - 1].who = repair_operators[r + 1][1]
               /\ calls[i].who \in Outcomes
               /\ i < Len(calls) => calls[i + 1].call = "record"
    /\ pc = "record" =>
            /\ calls[Len(calls)] = Call("update", outcome, cand, <<d_idx, r_idx>>)
            /\ TransitionByOutcome
    /\ (AtBoundary \/ InBody) =>
            CallCount("update") = iteration + (IF pc = "record" THEN 1 ELSE 0)
    /\ CallCount("update") <= CallCount("select")

\* C18 witness: in the second iteration the second destroy operator was
\* selected and the update was called with its index.
C18_Witness ==
    /\ pc = "record"
    /\ iteration = 1
    /\ d_idx = 1
    /\ calls[Len(calls)].call = "update"
    /\ calls[Len(calls)].ret = <<1, 0>>
    /\ CallCount("update") = 2

\* C19: at every iteration boundary of a run in which no callback has
\* changed the objective of a solution, the objective of best is at most
\* that of curr; before the first iteration they are the same solution.
C19_BestAtMostCurr ==
    /\ (AtBoundary /\ best /= NoState /\ ~mutated) => obj[best] <= obj[curr]
    /\ (pc = "stop" /\ iteration = 0) => best = curr

\* C19 witness: after two iterations curr is worse than best, a callback
\* was called and changed nothing.
C19_Witness ==
    /\ pc = "stop"
    /\ iteration = 2
    /\ ~mutated
    /\ obj[best] < obj[curr]
    /\ best /= curr
    /\ CallCount("callback") >= 1

\* C20: the acceptance criterion has been called once in every iteration
\* that reached the classification and never otherwise; it is called on
\* the candidate repair returned, and when the outcome of an iteration is
\* known, BEST included, its call is the last one made.
C20_AcceptOnce ==
    /\ (AtBoundary \/ InBody) =>
            CallCount("accept") =
                iteration + (IF pc \in {"callback", "update", "record"} THEN 1 ELSE 0)
    /\ AtBoundary => CallCount("accept") = CallCount("record")
    /\ \A i \in 1..Len(calls) :
        calls[i].call = "accept" =>
            /\ calls[i - 1].call = "repair"
            /\ calls[i].arg = calls[i - 1].ret
            /\ i < Len(calls) => calls[i + 1].call \in {"callback", "update"}
    /\ pc = "callback" => calls[Len(calls)] = Call("accept", "", cand, 0)

\* C20 witness: the candidate of the second iteration is a new best, and
\* the acceptance criterion was called for it as for the first.
C20_Witness ==
    /\ pc = "callback"
    /\ iteration = 1
    /\ outcome = "BEST"
    /\ obj[cand] < obj[best]
    /\ CallCount("accept") = 2

====
